---------------------------- MODULE Spec2Model ----------------------------
(***************************************************************************)
(* The static-site builder (src/build.py) and its file watcher             *)
(* (src/watch.py).                                                         *)
(*                                                                         *)
(* File contents are sequences of one-character strings, a path is the     *)
(* sequence of its components ('./build/a.html' is <<".", "build",         *)
(* "a.html">>), and the file system is a function from the paths of the    *)
(* existing regular files to their contents plus the set of existing       *)
(* directories.  Text files are modelled after newline translation: "\n"   *)
(* is the only line terminator.                                            *)
(***************************************************************************)
EXTENDS Integers, Sequences, FiniteSets, TLC

VARIABLES
    fs,         \* [path -> text]: the regular files that exist
    dirs,       \* the directories that exist
    denied,     \* paths whose open() raises PermissionError
    observing,  \* TRUE when watch.py's Observer is started on ./content/
    budget,     \* how many external modifications the environment makes
    pc,         \* [proc -> position]: where each process / handler call is
    b,          \* [proc -> locals of its build() call, with its I/O log]
    locked,     \* BuildEventHandler.locked
    files_changed_while_locked, \* BuildEventHandler.files_changed_while_locked
    pending,    \* modification events queued by the observer, not yet dispatched
    stdout,     \* what has been printed, in order
    arrivals,   \* per external modification: was a build running, how many had started
    builds,     \* number of build() calls started by on_modified
    runs,       \* number of times the build entry point was run
    hist        \* outputs left by the last two completed runs of the entry point

vars == <<fs, dirs, denied, observing, budget, budget, pc, b, locked, files_changed_while_locked,
          pending, stdout, arrivals, builds, runs, hist>>

-----------------------------------------------------------------------------
(* Bounds of the model *)

\* entries of ./content/pages/ in an initial state
MaxPages == 2
\* runs of the build entry point
MaxRuns == 2
\* external edits of the content tree when no watcher runs
MaxEdits == 1
\* external modifications of the content tree while the watcher runs
MaxEvents == 4
\* external modifications while events are delivered on two threads
MaxRaceEvents == 2

-----------------------------------------------------------------------------
(* Constants of build.py and watch.py *)

NL == "\n"

CONTENT_KEY ==
    <<"{", "{", "c", "o", "n", "t", "e", "n", "t", "}", "}">>
TEMPLATE_FILE == <<".", "content", "base.html">>
\* a build directory inside the watched tree
BUILD_DIR_UnderContent == <<".", "content", "build">>

BUILD_DIR == <<".", "build">>
CONTENT_DIR == <<".", "content", "pages">>
INDEX_DIR == <<".">>
\* watch.py: path = './content/'
WATCH_PATH == <<".", "content">>

\* Python's None for content_index (enumerate() never yields a negative index)
None == -1

-----------------------------------------------------------------------------
(* Text and path helpers *)

\* f'{DIR}{page}'
Join(dir, name) == dir \o <<name>>

Parent(path) == SubSeq(path, 1, Len(path) - 1)

BaseName(path) == path[Len(path)]

IsPrefix(p, q) == Len(p) <= Len(q) /\ SubSeq(q, 1, Len(p)) = p

\* Python's `key in line` on strings: key occurs as a substring
KeyIn(key, line) ==
    \E i \in 0..(Len(line) - Len(key)) : SubSeq(line, i + 1, i + Len(key)) = key

\* index of the end of the first line of a non-empty text (its "\n", or the end)
LineEnd(text) ==
    IF \E i \in 1..Len(text) : text[i] = NL
    THEN CHOOSE i \in 1..Len(text) : text[i] = NL /\ \A j \in 1..(i - 1) : text[j] # NL
    ELSE Len(text)

\* file.readlines(): the lines of the text, each with its terminator
RECURSIVE readlines(_)
readlines(text) ==
    IF text = <<>> THEN <<>>
    ELSE <<SubSeq(text, 1, LineEnd(text))>>
         \o readlines(SubSeq(text, LineEnd(text) + 1, Len(text)))

\* file.writelines(lines): the lines one after the other, nothing added
RECURSIVE writelines(_)
writelines(lines) ==
    IF lines = <<>> THEN <<>> ELSE Head(lines) \o writelines(Tail(lines))

\* Python's s[lo:hi] for 0 <= lo
Slice(s, lo, hi) == SubSeq(s, lo + 1, IF hi > Len(s) THEN Len(s) ELSE hi)

\* all enumeration orders of a finite set
Orders(S) ==
    {o \in [1..Cardinality(S) -> S] : \A i, j \in 1..Cardinality(S) : o[i] = o[j] => i = j}

-----------------------------------------------------------------------------
(* Inputs: the templates and fragments the initial states are drawn from *)

\* the example of the specification: <html> / {{content}} / </html>
TplExample ==
    <<"<", "h", "t", "m", "l", ">", NL, "{", "{", "c", "o", "n", "t", "e", "n", "t", "}", "}", NL, "<", "/", "h", "t", "m", "l", ">", NL>>
TplNoMarker ==
    <<"<", "h", "t", "m", "l", ">", NL, "<", "/", "h", "t", "m", "l", ">", NL>>
\* the key with its last brace missing: no marker
TplNearMiss ==
    <<"{", "{", "c", "o", "n", "t", "e", "n", "t", "}", NL>>
\* a / {{content}} / b / <{{content}}> / c : two marker lines
TplTwoMarkers ==
    <<"a", NL, "{", "{", "c", "o", "n", "t", "e", "n", "t", "}", "}", NL, "b", NL, "<", "{", "{", "c", "o", "n", "t", "e", "n", "t", "}", "}", ">", NL, "c", NL>>
\* the marker inside the last line, which has no terminator
TplInlineAtEof ==
    <<"a", NL, "<", "{", "{", "c", "o", "n", "t", "e", "n", "t", "}", "}", ">">>
\* {{content}} / tent}} : one marker line, followed by the tail of a key
TplSplitKey ==
    <<"{", "{", "c", "o", "n", "t", "e", "n", "t", "}", "}", NL, "t", "e", "n", "t", "}", "}", NL>>

Templates ==
    {TplExample, TplNoMarker, TplNearMiss, TplTwoMarkers, TplInlineAtEof, TplSplitKey, <<>>}

FragHi ==
    <<"<", "p", ">", "h", "i", "<", "/", "p", ">", NL>>
FragTwoLines ==
    <<"x", NL, "y", NL>>
\* a fragment that itself holds the key
FragMarker ==
    <<"{", "{", "c", "o", "n", "t", "e", "n", "t", "}", "}", NL>>
\* a fragment whose last line is unterminated and ends with the head of a key
FragOpenKey ==
    <<"{", "{", "c", "o", "n">>

Fragments == {FragHi, FragTwoLines, FragMarker, FragOpenKey, <<>>}

PageNames == {"index.html", "a.html", "b.html"}

\* a sub-directory of ./content/pages/
DRAFTS == Join(CONTENT_DIR, "drafts")

\* what can make an open() of the build fail in an initial state
Failures == {"none", "subdir", "unreadable", "unwritable", "index unwritable"}

Procs == {"main", "t1", "t2"}

-----------------------------------------------------------------------------
(* The file system *)

\* open(path) for reading succeeds
CanRead(path) == path \in DOMAIN fs /\ path \notin denied

\* open(path, 'w') succeeds
CanWrite(path) == path \notin dirs /\ path \notin denied /\ Parent(path) \in dirs

\* os.listdir(dir): the names of the entries of dir, files and directories
listdir(dir) ==
    {BaseName(p) : p \in {q \in (DOMAIN fs) \cup dirs : Len(q) > 1 /\ Parent(q) = dir}}

\* the file opened with 'a': the lines are added to what the file holds
WriteFileAppend(f, path, lines) ==
    [q \in (DOMAIN f) \cup {path} |->
        IF q # path THEN f[q]
        ELSE IF path \in DOMAIN f THEN f[path] \o writelines(lines) ELSE writelines(lines)]

\* the file system after open(path, 'w'), writelines(lines), close()
WriteFile(f, path, lines) ==
    [q \in (DOMAIN f) \cup {path} |-> IF q = path THEN writelines(lines) ELSE f[q]]

\* the modification events the observer queues for a change of `path`
Notify(path) == IF observing /\ IsPrefix(WATCH_PATH, path) THEN 1 ELSE 0

\* the files of the build directory and of the index location
OutputFiles(f) ==
    [p \in {q \in DOMAIN f : Parent(q) \in {BUILD_DIR, INDEX_DIR}} |-> f[p]]

\* the files of the watched tree
ContentFiles(f) ==
    [p \in {q \in DOMAIN f : IsPrefix(WATCH_PATH, q)} |-> f[p]]

-----------------------------------------------------------------------------
(* build(), src/build.py *)

\* the scan with a break at the first marker line
RECURSIVE ScanFromFirst(_, _, _)
ScanFromFirst(template, i, content_index) ==
    IF i >= Len(template) THEN content_index
    ELSE IF KeyIn(CONTENT_KEY, template[i + 1]) THEN i
    ELSE ScanFromFirst(template, i + 1, content_index)

\* lines 13-16: the scan for the marker, from index i with content_index so far
RECURSIVE ScanFrom(_, _, _)
ScanFrom(template, i, content_index) ==
    IF i >= Len(template) THEN content_index
    ELSE ScanFrom(template, i + 1,
                  IF KeyIn(CONTENT_KEY, template[i + 1]) THEN i ELSE content_index)

\* the check of line 18 left out
MarkerMissingIgnored(content_index) == FALSE

\* line 18: if content_index is None
MarkerMissing(content_index) == content_index = None

\* the OSError caught and dropped: build() goes on
RaiseSwallowed(t) == UNCHANGED pc

\* an OSError of open() is not caught: it propagates out of build()
Raise(t) == pc' = [pc EXCEPT ![t] = "ioerror"]

\* every page routed to the build directory
OutputPathNoIndex(page) == Join(BUILD_DIR, page)

\* line 31
OutputPath(page) ==
    IF page = "index.html" THEN Join(INDEX_DIR, page) ELSE Join(BUILD_DIR, page)

\* the slice after the fragment starting at the marker line itself
SpliceKeepsMarkerLine(template, content_index, contents) ==
    Slice(template, 0, content_index) \o contents
        \o Slice(template, content_index, Len(template))

\* line 35: template[:content_index] + contents + template[content_index+1:]
Splice(template, content_index, contents) ==
    Slice(template, 0, content_index) \o contents
        \o Slice(template, content_index + 1, Len(template))

\* one entry of a call's I/O log: an open() and, when it succeeded, the text
\* read or written
Op(path, mode, ok, text) == [path |-> path, mode |-> mode, ok |-> ok, text |-> text]

\* the locals of a build() call that has not started
NoCall ==
    [template |-> <<>>, content_index |-> None, listing |-> <<>>, k |-> 0,
     ops |-> <<>>, pre |-> <<>>, predirs |-> {}]

\* build() is entered: nothing read yet
Enter(t) ==
    b' = [b EXCEPT ![t] = [NoCall EXCEPT !.pre = fs, !.predirs = dirs]]

\* lines 10-20: read the template, scan it, exit(1) when the marker is missing
BuildScan(t) ==
    /\ pc[t] = "b10"
    /\ IF ~CanRead(TEMPLATE_FILE)
       THEN /\ Raise(t)
            /\ b' = [b EXCEPT ![t].ops = Append(@, Op(TEMPLATE_FILE, "r", FALSE, <<>>))]
            /\ UNCHANGED stdout
       ELSE LET template == readlines(fs[TEMPLATE_FILE])
                content_index == ScanFrom(template, 0, None)
            IN  /\ b' = [b EXCEPT ![t].template = template,
                                  ![t].content_index = content_index,
                                  ![t].ops = Append(@, Op(TEMPLATE_FILE, "r", TRUE,
                                                          fs[TEMPLATE_FILE]))]
                /\ IF MarkerMissing(content_index)
                   THEN /\ stdout' = Append(stdout, <<"must contain", TEMPLATE_FILE, CONTENT_KEY>>)
                        /\ pc' = [pc EXCEPT ![t] = "exit1"]
                   ELSE /\ pc' = [pc EXCEPT ![t] = "b22"]
                        /\ UNCHANGED stdout
    /\ UNCHANGED <<fs, dirs, denied, observing, budget, locked, files_changed_while_locked,
                   pending, arrivals, builds, runs>>

\* lines 22-27: os.mkdir(BUILD_DIR), FileExistsError ignored; os.listdir(CONTENT_DIR)
BuildPrepare(t) ==
    /\ pc[t] = "b22"
    /\ dirs' = dirs \cup {BUILD_DIR}
    /\ pending' = pending + (IF BUILD_DIR \in dirs THEN 0 ELSE Notify(BUILD_DIR))
    /\ \E order \in Orders(listdir(CONTENT_DIR)) :
           b' = [b EXCEPT ![t].listing = order, ![t].k = 0]
    /\ pc' = [pc EXCEPT ![t] = "b28"]
    /\ UNCHANGED <<fs, denied, observing, budget, locked, files_changed_while_locked,
                   stdout, arrivals, builds, runs>>

\* lines 27-36, one iteration: read the fragment, write its output; an error
\* of either open() propagates out of build()
BuildPage(t) ==
    /\ pc[t] = "b28"
    /\ b[t].k < Len(b[t].listing)
    /\ LET page == b[t].listing[b[t].k + 1]
           input == Join(CONTENT_DIR, page)
           output_path == OutputPath(page)
       IN  IF ~CanRead(input)
           THEN /\ b' = [b EXCEPT ![t].ops = Append(@, Op(input, "r", FALSE, <<>>))]
                /\ Raise(t)
                /\ UNCHANGED <<fs, pending>>
           ELSE LET contents == readlines(fs[input])
                    lines == Splice(b[t].template, b[t].content_index, contents)
                    rd == Op(input, "r", TRUE, fs[input])
                IN  IF ~CanWrite(output_path)
                    THEN /\ b' = [b EXCEPT ![t].ops =
                                     @ \o <<rd, Op(output_path, "w", FALSE, <<>>)>>]
                         /\ Raise(t)
                         /\ UNCHANGED <<fs, pending>>
                    ELSE /\ fs' = WriteFile(fs, output_path, lines)
                         /\ pending' = pending + Notify(output_path)
                         /\ b' = [b EXCEPT ![t].k = @ + 1,
                                           ![t].ops = @ \o <<rd, Op(output_path, "w", TRUE,
                                                                    fs'[output_path])>>]
                         /\ UNCHANGED pc
    /\ UNCHANGED <<dirs, denied, observing, budget, locked, files_changed_while_locked,
                   stdout, arrivals, builds, runs>>

\* line 27: the listing is exhausted, build() returns
BuildReturn(t) ==
    /\ pc[t] = "b28"
    /\ b[t].k >= Len(b[t].listing)
    /\ pc' = [pc EXCEPT ![t] = "ret"]
    /\ UNCHANGED <<fs, dirs, denied, observing, budget, b, locked, files_changed_while_locked,
                   pending, stdout, arrivals, builds, runs>>

\* the steps of a build() call; hist is the entry point's, kept by its own steps
Build(t) ==
    /\ (BuildScan(t) \/ BuildPrepare(t) \/ BuildPage(t) \/ BuildReturn(t))
    /\ IF t = "main" /\ pc'[t] \in {"exit1", "ioerror"}
       THEN hist' = [hist EXCEPT !.stable = 0]
       ELSE UNCHANGED hist

-----------------------------------------------------------------------------
(* The environment: someone edits the content tree *)

\* what the watcher is doing: "idle" between events, "build" inside build(),
\* "handler" elsewhere in on_modified, "stopped" once an exception ended it
Phase ==
    IF \E t \in {"t1", "t2"} : pc[t] \in {"b10", "b22", "b28"} THEN "build"
    ELSE IF \E t \in {"t1", "t2"} : pc[t] \in {"w16", "w17", "ret", "w20", "w21"} THEN "handler"
    ELSE IF \E t \in {"t1", "t2"} : pc[t] \in {"exit1", "ioerror"} THEN "stopped"
    ELSE "idle"

\* the text an edit leaves in a file: the template loses or regains its
\* marker, a page becomes another fragment
EditText(path) ==
    IF path = TEMPLATE_FILE
    THEN (IF fs[path] = TplNoMarker THEN TplExample ELSE TplNoMarker)
    ELSE (IF fs[path] = FragHi THEN FragMarker ELSE FragHi)

\* an editor saves a file of the content tree; the observer, when started,
\* queues one modification event.  With no watcher the build is run by hand,
\* after the edit.
Modify ==
    /\ Len(arrivals) < budget
    /\ observing \/ pc["main"] \in {"idle", "exit0", "exit1", "ioerror"}
    /\ \E path \in DOMAIN ContentFiles(fs) :
           fs' = [fs EXCEPT ![path] = EditText(path)]
    /\ pending' = pending + (IF observing THEN 1 ELSE 0)
    /\ arrivals' = Append(arrivals, [phase |-> Phase, started |-> builds])
    /\ hist' = [hist EXCEPT !.stable = 0]
    /\ UNCHANGED <<dirs, denied, observing, budget, pc, b, locked, files_changed_while_locked,
                   stdout, builds, runs>>

-----------------------------------------------------------------------------
(* The build entry point, src/build.py lines 38-39 *)

\* what a run leaves in the output locations
OutputState == [files |-> OutputFiles(fs), dirs |-> dirs]

\* `python build.py`: __main__ calls build()
Invoke ==
    /\ pc["main"] \in {"idle", "exit0", "exit1", "ioerror"}
    /\ ~observing
    /\ runs < MaxRuns
    /\ runs' = runs + 1
    /\ pc' = [pc EXCEPT !["main"] = "b10"]
    /\ Enter("main")
    /\ UNCHANGED <<fs, dirs, denied, observing, budget, locked, files_changed_while_locked,
                   pending, stdout, arrivals, builds, hist>>

\* build() returned: the process exits with status 0
Exit0 ==
    /\ pc["main"] = "ret"
    /\ pc' = [pc EXCEPT !["main"] = "exit0"]
    /\ hist' = [hist EXCEPT !.stable = @ + 1, !.prev = hist.last, !.last = OutputState]
    /\ UNCHANGED <<fs, dirs, denied, observing, budget, b, locked, files_changed_while_locked,
                   pending, stdout, arrivals, builds, runs>>

-----------------------------------------------------------------------------
(* BuildEventHandler.on_modified, src/watch.py *)

\* the observer takes a queued event and calls on_modified on thread t
Dispatch(t) ==
    /\ observing
    /\ pc[t] = "idle"
    /\ pending > 0
    /\ pending' = pending - 1
    /\ pc' = [pc EXCEPT ![t] = "w16"]
    /\ UNCHANGED <<fs, dirs, denied, observing, budget, b, locked, files_changed_while_locked,
                   stdout, arrivals, builds, runs, hist>>

\* line 16: if not self.locked; lines 22-23: else the counter is incremented
TestLock(t) ==
    /\ pc[t] = "w16"
    /\ IF ~locked
       THEN /\ pc' = [pc EXCEPT ![t] = "w17"]
            /\ UNCHANGED files_changed_while_locked
       ELSE /\ files_changed_while_locked' = files_changed_while_locked + 1
            /\ pc' = [pc EXCEPT ![t] = "idle"]
    /\ UNCHANGED <<fs, dirs, denied, observing, budget, b, locked, pending, stdout, arrivals,
                   builds, runs, hist>>

\* on_modified closing the lock before it builds
StartBuildLocking(t) ==
    /\ pc[t] = "w17"
    /\ locked' = TRUE
    /\ stdout' = Append(stdout, <<"building project...">>)
    /\ builds' = builds + 1
    /\ pc' = [pc EXCEPT ![t] = "b10"]
    /\ Enter(t)
    /\ UNCHANGED <<fs, dirs, denied, observing, budget, files_changed_while_locked,
                   pending, arrivals, runs, hist>>

\* lines 17-18: print('building project...'), build() is called
StartBuild(t) ==
    /\ pc[t] = "w17"
    /\ stdout' = Append(stdout, <<"building project...">>)
    /\ builds' = builds + 1
    /\ pc' = [pc EXCEPT ![t] = "b10"]
    /\ Enter(t)
    /\ UNCHANGED <<fs, dirs, denied, observing, budget, locked, files_changed_while_locked,
                   pending, arrivals, runs, hist>>

\* line 19: print(f'Done! {self.files_changed_while_locked} files changed while building')
Report(t) ==
    /\ pc[t] = "ret"
    /\ stdout' = Append(stdout, <<"Done!", files_changed_while_locked>>)
    /\ pc' = [pc EXCEPT ![t] = "w20"]
    /\ UNCHANGED <<fs, dirs, denied, observing, budget, b, locked, files_changed_while_locked,
                   pending, arrivals, builds, runs, hist>>

\* line 20: self.files_changed_while_locked = 0
ResetCount(t) ==
    /\ pc[t] = "w20"
    /\ files_changed_while_locked' = 0
    /\ pc' = [pc EXCEPT ![t] = "w21"]
    /\ UNCHANGED <<fs, dirs, denied, observing, budget, b, locked, pending, stdout, arrivals,
                   builds, runs, hist>>

\* line 21: self.locked = False; on_modified returns
Unlock(t) ==
    /\ pc[t] = "w21"
    /\ locked' = FALSE
    /\ pc' = [pc EXCEPT ![t] = "idle"]
    /\ b' = [b EXCEPT ![t] = NoCall]
    /\ UNCHANGED <<fs, dirs, denied, observing, budget, files_changed_while_locked, pending,
                   stdout, arrivals, builds, runs, hist>>

on_modified(t) ==
    \/ Dispatch(t)
    \/ TestLock(t)
    \/ StartBuild(t)
    \/ Build(t)
    \/ Report(t)
    \/ ResetCount(t)
    \/ Unlock(t)

-----------------------------------------------------------------------------
(* Initial states *)

\* the file system with the given template, pages and cause of failure
InitFiles(tpl, pages, fail) ==
    /\ fs = [p \in {TEMPLATE_FILE} \cup {Join(CONTENT_DIR, n) : n \in DOMAIN pages} |->
                IF p = TEMPLATE_FILE THEN tpl ELSE pages[BaseName(p)]]
    /\ dirs = {INDEX_DIR, WATCH_PATH, CONTENT_DIR}
                 \cup (IF fail = "subdir" THEN {DRAFTS} ELSE {})
    /\ denied = CASE fail = "unreadable" -> {Join(CONTENT_DIR, "a.html")}
                  [] fail = "unwritable" -> {Join(BUILD_DIR, "b.html")}
                  [] fail = "index unwritable" -> {Join(INDEX_DIR, "index.html")}
                  [] OTHER -> {}

\* the failure concerns an entry that exists
Applies(fail, names) ==
    /\ fail = "unreadable" => "a.html" \in names
    /\ fail = "unwritable" => "b.html" \in names
    /\ fail = "index unwritable" => "index.html" \in names

InitRest ==
    /\ pc = [t \in Procs |-> "idle"]
    /\ b = [t \in Procs |-> NoCall]
    /\ locked = FALSE
    /\ files_changed_while_locked = 0
    /\ pending = 0
    /\ stdout = <<>>
    /\ arrivals = <<>>
    /\ builds = 0
    /\ runs = 0
    /\ hist = [stable |-> 0, last |-> <<>>, prev |-> <<>>]

\* the fragment a page holds unless the initial state says otherwise
UsualFragment(name) ==
    CASE name = "index.html" -> FragHi
      [] name = "a.html" -> FragTwoLines
      [] OTHER -> FragMarker

\* the build entry point is run by hand, no watcher: any template over a
\* single page with any fragment, or over up to MaxPages pages with their
\* usual fragments and any cause of failure
Init ==
    /\ observing = FALSE
    /\ budget = MaxEdits
    /\ \E tpl \in Templates, names \in SUBSET PageNames, fail \in Failures :
          /\ Cardinality(names) <= MaxPages
          /\ Applies(fail, names)
          /\ \E pages \in [names -> Fragments] :
                /\ (Cardinality(names) > 1 \/ fail # "none") =>
                       pages = [n \in names |-> UsualFragment(n)]
                /\ InitFiles(tpl, pages, fail)
    /\ InitRest

\* the watcher runs on a good template or on one with no marker, over a
\* pages directory with one or two fragments and perhaps a sub-directory
InitWatch ==
    /\ observing = TRUE
    /\ budget = MaxEvents
    /\ \E tpl \in {TplExample, TplNoMarker}, fail \in {"none", "subdir"} :
       \E names \in {{"a.html"}, {"a.html", "index.html"}} :
           InitFiles(tpl, [n \in names |-> UsualFragment(n)], fail)
    /\ InitRest

-----------------------------------------------------------------------------
(* Specifications *)

Next ==
    \/ Invoke
    \/ Build("main")
    \/ Exit0
    \/ Modify

\* build.py run by hand, up to MaxRuns times, with edits in between
Spec == Init /\ [][Next]_vars

NextWatch ==
    \/ Modify
    \/ on_modified("t1")

\* watch.py: the observer's one thread dispatches the queued events in turn
WatchSpec == InitWatch /\ [][NextWatch]_vars

\* the watcher on a good template, with events delivered on two threads
InitRace ==
    /\ observing = TRUE
    /\ budget = MaxRaceEvents
    /\ \E fail \in {"none", "subdir"} :
       \E names \in {{"a.html"}, {"a.html", "index.html"}} :
           InitFiles(TplExample, [n \in names |-> UsualFragment(n)], fail)
    /\ InitRest

NextRace ==
    \/ Modify
    \/ \E t \in {"t1", "t2"} : on_modified(t)

\* watch.py with on_modified called from two threads at once
RaceSpec == InitRace /\ [][NextRace]_vars

-----------------------------------------------------------------------------
(* Vocabulary of the properties *)

\* the numbers (from 1) of the lines of a text that hold the marker token
MarkerLines(text) ==
    {i \in 1..Len(readlines(text)) : KeyIn(CONTENT_KEY, readlines(text)[i])}

Min(S) == CHOOSE x \in S : \A y \in S : x <= y

Max(S) == CHOOSE x \in S : \A y \in S : x >= y

\* the text of the lines before line i of tpl, then frag, then the text of
\* the lines after line i
SpliceAt(tpl, i, frag) ==
    LET L == readlines(tpl)
    IN  writelines(SubSeq(L, 1, i - 1)) \o frag \o writelines(SubSeq(L, i + 1, Len(L)))

\* line i of a text, or nothing when the text has fewer lines
LineOf(text, i) == IF i <= Len(readlines(text)) THEN readlines(text)[i] ELSE <<>>

\* a call's log holds the template as it read it
HasTemplate(t) == b[t].ops # <<>> /\ b[t].ops[1].ok

TemplateText(t) == b[t].ops[1].text

\* the positions in a call's log of the outputs it wrote; the fragment of
\* each is the read just before it
Written(t) == {i \in 1..Len(b[t].ops) : b[t].ops[i].mode = "w" /\ b[t].ops[i].ok}

FragmentOf(t, i) == b[t].ops[i - 1].text

PageOf(t, i) == BaseName(b[t].ops[i - 1].path)

InBuild(t) == pc[t] \in {"b10", "b22", "b28"}

-----------------------------------------------------------------------------
(* Properties of build() *)

\* <html> / <p>hi</p> / </html>
ExampleOutput ==
    <<"<", "h", "t", "m", "l", ">", NL, "<", "p", ">", "h", "i", "<", "/", "p", ">", NL, "<", "/", "h", "t", "m", "l", ">", NL>>

\* C1 as stated: with exactly one marker line in the template, every output
\* written is the template lines before the marker line, the fragment, the
\* template lines after it, and the marker token occurs nowhere in the output.
C1_SpliceAndNoMarkerLeft ==
    \A t \in Procs : \A i \in Written(t) :
        Cardinality(MarkerLines(TemplateText(t))) = 1 =>
            /\ b[t].ops[i].text =
                   SpliceAt(TemplateText(t), Min(MarkerLines(TemplateText(t))), FragmentOf(t, i))
            /\ ~KeyIn(CONTENT_KEY, b[t].ops[i].text)

\* C1 amended: with exactly one marker line in the template, every output
\* written is the template lines before the marker line, the fragment, the
\* template lines after it; the marker token occurs in the output exactly when
\* it occurs in the fragment's text followed by the template line after the
\* marker line (so none remains when the fragment holds no marker and ends
\* with a line terminator).
C1_SpliceExact ==
    \A t \in Procs : \A i \in Written(t) :
        Cardinality(MarkerLines(TemplateText(t))) = 1 =>
            LET m == Min(MarkerLines(TemplateText(t)))
            IN  /\ b[t].ops[i].text = SpliceAt(TemplateText(t), m, FragmentOf(t, i))
                /\ KeyIn(CONTENT_KEY, b[t].ops[i].text)
                     <=> KeyIn(CONTENT_KEY,
                               FragmentOf(t, i) \o LineOf(TemplateText(t), m + 1))

\* the example of the specification was built, and no marker is left in it
C1_Witness ==
    \E i \in Written("main") :
        /\ TemplateText("main") = TplExample
        /\ FragmentOf("main", i) = FragHi
        /\ b["main"].ops[i].text = ExampleOutput
        /\ fs[b["main"].ops[i].path] = ExampleOutput
        /\ ~KeyIn(CONTENT_KEY, ExampleOutput)

\* C7 as stated: with several marker lines, the fragment replaces the first of
\* them and the later ones stay in the output.
C7_FirstMatchWins ==
    \A t \in Procs : \A i \in Written(t) :
        Cardinality(MarkerLines(TemplateText(t))) > 1 =>
            b[t].ops[i].text =
                SpliceAt(TemplateText(t), Min(MarkerLines(TemplateText(t))), FragmentOf(t, i))

\* C7 amended: with several marker lines, the fragment replaces the last of
\* them; every earlier marker line stays in the output, verbatim, as part of
\* the prefix, and the lines after the last marker line are the suffix.
C7_LastMatchWins ==
    \A t \in Procs : \A i \in Written(t) :
        Cardinality(MarkerLines(TemplateText(t))) > 1 =>
            b[t].ops[i].text =
                SpliceAt(TemplateText(t), Max(MarkerLines(TemplateText(t))), FragmentOf(t, i))

\* an output was written from the template with two marker lines
C7_Witness ==
    \E i \in Written("main") :
        /\ TemplateText("main") = TplTwoMarkers
        /\ FragmentOf("main", i) = FragHi
        /\ fs[b["main"].ops[i].path] = b["main"].ops[i].text

\* the message of line 19
MissingMarkerMessage == <<"must contain", TEMPLATE_FILE, CONTENT_KEY>>

\* C2: a build() that read a template with no marker line has printed the
\* message and exited with status 1, and the output locations hold the files
\* and directories they held when it was called.
C2_NoMarkerNoOutput ==
    \A t \in Procs :
        (HasTemplate(t) /\ MarkerLines(TemplateText(t)) = {}) =>
            /\ pc[t] = "exit1"
            /\ stdout # <<>> /\ stdout[Len(stdout)] = MissingMarkerMessage
            /\ Written(t) = {}
            /\ OutputFiles(fs) = OutputFiles(b[t].pre)
            /\ dirs = b[t].predirs

\* a second run found the marker gone and left the first run's outputs alone
C2_Witness ==
    /\ pc["main"] = "exit1"
    /\ runs = 2
    /\ MarkerLines(TemplateText("main")) = {}
    /\ DOMAIN OutputFiles(fs) # {}
    /\ BUILD_DIR \in dirs

\* where C6 puts the output of a page, and where it must not put it
Routed(page) ==
    IF page = "index.html" THEN <<".", "index.html">> ELSE <<".", "build", page>>

NotRouted(page) ==
    IF page = "index.html" THEN <<".", "build", "index.html">> ELSE <<".", page>>

\* file `path` is in f and g alike: absent in both, or the same text in both
SameFile(f, g, path) ==
    /\ (path \in DOMAIN f) <=> (path \in DOMAIN g)
    /\ path \in DOMAIN f => f[path] = g[path]

\* C6: the output of index.html is ./index.html and ./build/index.html is left
\* alone; the output of any other page is ./build/<page> and ./<page> is left
\* alone; a build that returns has written exactly one file per fragment.
C6_Routing ==
    \A t \in Procs :
        /\ \A i \in Written(t) :
              /\ b[t].ops[i].path = Routed(PageOf(t, i))
              /\ BaseName(b[t].ops[i].path) = PageOf(t, i)
              /\ SameFile(fs, b[t].pre, NotRouted(PageOf(t, i)))
        /\ pc[t] \in {"ret", "exit0"} =>
              /\ Cardinality(Written(t)) = Len(b[t].listing)
              /\ \A j \in 1..Len(b[t].listing) :
                    Cardinality({i \in Written(t) :
                                    b[t].ops[i].path = Routed(b[t].listing[j])}) = 1
              /\ \A path \in DOMAIN OutputFiles(fs) :
                    SameFile(fs, b[t].pre, path)
                        \/ \E j \in 1..Len(b[t].listing) : path = Routed(b[t].listing[j])

\* a run built index.html and another page
C6_Witness ==
    /\ pc["main"] = "exit0"
    /\ <<".", "index.html">> \in DOMAIN fs
    /\ <<".", "build", "index.html">> \notin DOMAIN fs
    /\ \E n \in PageNames \ {"index.html"} :
          <<".", "build", n>> \in DOMAIN fs /\ <<".", n>> \notin DOMAIN fs

\* C3: a run of build() that follows a completed run, with no edit of the
\* content tree in between, leaves the output locations exactly
\* as that run left them.
C3_Idempotent ==
    hist.stable >= 2 => hist.last = hist.prev

\* two runs in a row completed and wrote the index page and another page
C3_Witness ==
    /\ hist.stable = 2
    /\ pc["main"] = "exit0"
    /\ <<".", "index.html">> \in DOMAIN hist.last.files
    /\ \E n \in PageNames : <<".", "build", n>> \in DOMAIN hist.last.files
    /\ hist.last.files = OutputFiles(fs)

\* C8: an open() that fails is the last thing a build() does: the call has
\* ended with the error, nothing is opened twice, the outputs written before
\* still hold what was written, and no later entry of the listing was read or
\* written.
C8_AbortOnIOError ==
    \A t \in Procs :
        LET ops == b[t].ops
        IN  /\ \A i \in 1..(Len(ops) - 1) : ops[i].ok
            /\ (ops # <<>> /\ ~ops[Len(ops)].ok) => pc[t] = "ioerror"
            /\ \A i, j \in 1..Len(ops) :
                  (ops[i].path = ops[j].path /\ ops[i].mode = ops[j].mode) => i = j
            /\ pc[t] = "ioerror" =>
                  /\ \A i \in Written(t) : fs[ops[i].path] = ops[i].text
                  /\ \A j \in (b[t].k + 2)..Len(b[t].listing) :
                        /\ \A i \in 1..Len(ops) :
                              ops[i].path \notin {Join(CONTENT_DIR, b[t].listing[j]),
                                                  Routed(b[t].listing[j])}
                        /\ SameFile(fs, b[t].pre, Routed(b[t].listing[j]))

\* a build failed on its second entry, after writing the first and with a
\* third entry still to come
C8_Witness ==
    /\ pc["main"] = "ioerror"
    /\ b["main"].k = 1
    /\ Len(b["main"].listing) = 3
    /\ Cardinality(Written("main")) = 1
    /\ Routed(b["main"].listing[3]) \notin DOMAIN fs

-----------------------------------------------------------------------------
(* Properties of the watcher *)

\* the external modifications that happened while the watcher was idle
IdleArrivals == {i \in 1..Len(arrivals) : arrivals[i].phase = "idle"}

\* the counts printed by line 19, in order
RECURSIVE Reports(_)
Reports(out) ==
    IF out = <<>> THEN <<>>
    ELSE IF Head(out)[1] = "Done!" THEN <<Head(out)[2]>> \o Reports(Tail(out))
    ELSE Reports(Tail(out))

\* every queued event has been handled and on_modified has returned
Quiet == pending = 0 /\ \A t \in {"t1", "t2"} : pc[t] = "idle"

\* C4 as stated: events that arrive during a build start no build, so there
\* are never more builds started than modifications made while the watcher
\* was idle.
C4_BuildsOnlyFromIdleEvents ==
    builds <= Cardinality(IdleArrivals)

\* C5 as stated: one modification while idle, once handled, has started one
\* build; with three more modifications made during that build, once all are
\* handled there has been one build, its summary reported 2, the counter is 0
\* and the lock is open.
C5_Scenario ==
    /\ (Quiet /\ Len(arrivals) = 1 /\ arrivals[1].phase = "idle") => builds = 1
    /\ ( /\ Quiet
         /\ Len(arrivals) = 4
         /\ arrivals[1].phase = "idle"
         /\ \A i \in 2..4 : arrivals[i].phase = "build" /\ arrivals[i].started = 1 )
       => /\ builds = 1
          /\ Reports(stdout) = <<2>>
          /\ files_changed_while_locked = 0
          /\ ~locked

\* C10: build() opens nothing for writing and creates no directory under the
\* watched tree, so every queued or handled event is an external modification:
\* the builds started, the calls about to start one and the queued events add
\* up to the external modifications.
C10_NoSelfTrigger ==
    /\ \A t \in Procs : \A i \in 1..Len(b[t].ops) :
          b[t].ops[i].mode = "w" => ~IsPrefix(WATCH_PATH, b[t].ops[i].path)
    /\ \A d \in dirs : IsPrefix(WATCH_PATH, d) => d \in {WATCH_PATH, CONTENT_DIR, DRAFTS}
    /\ builds <= Len(arrivals)
    /\ builds + pending + Cardinality({t \in Procs : pc[t] \in {"w16", "w17"}})
           = Len(arrivals)

\* two external modifications were each followed by one build that wrote its
\* outputs, and then the watcher is quiet
C10_Witness ==
    /\ Quiet
    /\ Len(arrivals) = 2
    /\ builds = 2
    /\ Reports(stdout) = <<0, 0>>
    /\ <<".", "build", "a.html">> \in DOMAIN fs

\* C9: a call at the test of line 16 finds the lock open whatever the other
\* call is doing, even when that call is inside build().
C9_LockAlwaysOpen ==
    \A t \in {"t1", "t2"} : pc[t] = "w16" => ~locked

\* both calls have passed the test of line 16 and are inside build()
C9_Witness ==
    /\ InBuild("t1")
    /\ InBuild("t2")
    /\ builds = 2
    /\ ~locked

=============================================================================
